---- MODULE Spec2Model ----
(***************************************************************************)
(* Model of screen-pinger's cross-thread animation pipeline (src/main.rs). *)
(*                                                                         *)
(*   trigger thread (rdev::listen callback)                                *)
(*     --push-->  animations : ArrayQueue<Animation>                       *)
(*     --pop--->  animation driver thread (local_animation_queue)          *)
(*     --send_event-->  winit event loop (CustomEvent::Animate / Clear)    *)
(*     -->  MyApp.animations : HashMap<usize, Animation>                   *)
(*                                                                         *)
(* Three threads interleave.  Each atomic step of the model is one         *)
(* operation on shared state (a push, a pop, an emptiness check, a park    *)
(* return, an unpark, a send_event, one delivered user event) together     *)
(* with the thread-local work around it.                                   *)
(***************************************************************************)
EXTENDS Naturals, Sequences, FiniteSets

----------------------------------------------------------------------------
(* Bounds of the model.  The source uses 60 frames and a queue of 10; the  *)
(* model keeps the same code with smaller numbers so that the queue fills  *)
(* and animations run to their end within the explored state space.        *)

\* number of qualifying triggers explored (animation_id is unbounded in the source)
MaxTriggers == 2
\* the literal 60 of main.rs:81 and main.rs:93, scaled down
TerminalFrame == 4
\* the literal 10 of ArrayQueue::new(10), main.rs:58, scaled down
QueueCapacity == 1
\* notifications in flight on the event loop proxy (unbounded in the source)
MaxChannel == 1
\* length of the user event sequences fed to the event loop on its own
MaxEvents == 3

\* frame_time (main.rs:61) in clock ticks; one tick stands for 1/60 s
FramePeriod == 1

\* the ids the counter can hand out; the widest specification explores one
\* trigger more than MaxTriggers
Ids == 1 .. (MaxTriggers + 1)
Positions == {"p1", "p2"}
Keys == {"Alt", "OtherKey"}
Buttons == {"Left", "OtherButton"}
\* the rdev::Event values the callback distinguishes
InputEvents ==
    ({"KeyPress", "KeyRelease"} \X Keys) \cup ({"ButtonPress"} \X Buttons) \cup {<<"Other", "None">>}
NoEvent == <<"None", "None", 0>>

----------------------------------------------------------------------------
VARIABLES
    primed,                 \* trigger thread: `primed` latch
    animation_id,           \* trigger thread: id counter
    tpc,                    \* trigger thread: "listen" | "unpark"
    capacity,               \* capacity the ArrayQueue was built with
    animations,             \* the shared ArrayQueue<Animation>, oldest first
    token,                  \* park token of the animation driver thread
    spc,                    \* driver thread: "check" | "park" | "drain" | "advance"
    idx,                    \* driver thread: position of the `for` loop (1-based)
    local_animation_queue,  \* driver thread: Vec<Animation>
    channel,                \* user events sent and not yet delivered, oldest first
    my_app,                 \* MyApp.animations: id -> Animation projection
    sent,                   \* history: per id, the notifications sent, in order
    handled,                \* history: per id, the notifications the event loop processed
    admitted,               \* history: ids whose push returned Ok
    rejected,               \* history: ids whose push returned Err
    played,                 \* history: ids for which play_raw was called
    unparked,               \* history: ids for which unpark was called
    closed,                 \* the event loop has left `run`: send_event returns Err
    dropped,                \* history: ids with a notification whose send_event returned Err
    last_event,             \* observation: the event the callback last ran on, when recorded
    trigger_budget          \* number of qualifying triggers this exploration allows

vars == <<primed, animation_id, tpc, capacity, animations, token, spc, idx,
          local_animation_queue, channel, my_app, sent, handled, admitted,
          rejected, played, unparked, closed, dropped, last_event, trigger_budget>>

triggerVars == <<primed, animation_id, tpc, admitted, rejected, played, unparked,
                 last_event, trigger_budget>>
driverVars == <<spc, idx, local_animation_queue>>
consumerVars == <<my_app, handled, closed>>

----------------------------------------------------------------------------
(* Data *)

\* struct Animation; last_update is kept as the time elapsed since it
NewAnimation(id, pos) ==
    [id |-> id, frame |-> 0, position |-> pos, elapsed |-> 0]

\* a notification that carries a default position instead of the animation's
AnimateFixedPosition(a) == [kind |-> "Animate", id |-> a.id, frame |-> a.frame, position |-> "p1"]

\* an Animate that carries the frame the animation had before the increment
AnimateBeforeIncrement(a) ==
    [kind |-> "Animate", id |-> a.id, frame |-> a.frame - 1, position |-> a.position]

\* CustomEvent::Animate(animation.clone())
Animate(a) == [kind |-> "Animate", id |-> a.id, frame |-> a.frame, position |-> a.position]

\* CustomEvent::Clear(animation.id)
Clear(a) == [kind |-> "Clear", id |-> a.id]

\* elapsed.as_secs_f64() > frame_time
Due(a) == a.elapsed > FramePeriod

\* a running animation that was late coalesces two periods into one step
NextFrameSkip(f) == IF f = 0 THEN 1 ELSE (f + 2) % 256

\* animation.frame += 1 on a u8
NextFrame(f) == (f + 1) % 256

\* the terminal test off by one: the last step still reports Animate
NotificationNeverClear(a) == IF a.frame <= TerminalFrame THEN Animate(a) ELSE Clear(a)

\* the notification chosen by `if animation.frame < 60 { Animate } else { Clear }`
Notification(a) == IF a.frame < TerminalFrame THEN Animate(a) ELSE Clear(a)

\* the retain test off by one: a finished animation survives the pass
RetainedOffByOne(a) == a.frame <= TerminalFrame

\* a closure that keeps finished animations
RetainedAll(a) == TRUE

\* the closure of local_animation_queue.retain
Retained(a) == a.frame < TerminalFrame

\* Vec::retain: keeps the elements satisfying the closure, in order
RECURSIVE Retain(_)
Retain(s) ==
    IF s = <<>> THEN <<>>
    ELSE IF Retained(Head(s)) THEN <<Head(s)>> \o Retain(Tail(s))
    ELSE Retain(Tail(s))

\* a counter that wraps around after its first value
NextIdWrap(n) == IF n >= 1 THEN 1 ELSE n + 1

\* animation_id += 1
NextId(n) == n + 1

\* a queue that accepts one element too many
PushOkOffByOne(q) == Len(q) <= capacity

\* a queue that grows instead of rejecting
PushOkAlways(q) == TRUE

\* ArrayQueue::push: Ok when there is room, Err otherwise
PushOk(q) == Len(q) < capacity

\* an insert that keeps the entry already stored under the id
AddAnimationKeepOld(m, e) ==
    [i \in DOMAIN m \cup {e.id} |->
        IF i \in DOMAIN m THEN m[i] ELSE [frame |-> e.frame, position |-> e.position]]

\* MyApp::add_animation: HashMap::insert(animation.id, animation)
AddAnimation(m, e) ==
    [i \in DOMAIN m \cup {e.id} |->
        IF i = e.id THEN [frame |-> e.frame, position |-> e.position] ELSE m[i]]

\* a removal that leaves the entry in place
RemoveAnimationKeep(m, id) == m

\* frame assets: frames.len() after load_frames, one image per frame index
\* 0 .. TerminalFrame - 1
FrameAssets == TerminalFrame

\* MyApp::remove_animation: HashMap::remove(&animation_id)
RemoveAnimation(m, id) == [i \in DOMAIN m \ {id} |-> m[i]]

\* the empty HashMap
EmptyMap == [i \in {} |-> 0]

----------------------------------------------------------------------------
(* Initial state: after run() has spawned both threads *)

InitFull(c, b) ==
    /\ primed = FALSE
    /\ animation_id = 0
    /\ tpc = "listen"
    /\ capacity = c
    /\ animations = <<>>
    /\ token = FALSE
    /\ spc = "check"
    /\ idx = 1
    /\ local_animation_queue = <<>>
    /\ channel = <<>>
    /\ my_app = EmptyMap
    /\ sent = [i \in Ids |-> <<>>]
    /\ handled = [i \in Ids |-> <<>>]
    /\ admitted = {}
    /\ rejected = {}
    /\ played = {}
    /\ unparked = {}
    /\ closed = FALSE
    /\ dropped = {}
    /\ last_event = NoEvent
    /\ trigger_budget = b

InitWith(c) == InitFull(c, MaxTriggers)

Init == InitWith(QueueCapacity)

----------------------------------------------------------------------------
(* Trigger thread: the rdev::listen callback *)

KeyPress(key) ==
    /\ tpc = "listen"
    /\ primed' = IF key = "Alt" THEN TRUE ELSE primed
    /\ UNCHANGED <<animation_id, tpc, capacity, animations, token, admitted,
                   rejected, played, unparked, channel, sent>>
    /\ UNCHANGED <<driverVars, consumerVars, dropped, trigger_budget>>

\* a release arm that leaves the latch set
KeyReleaseSticky(key) ==
    /\ tpc = "listen"
    /\ primed' = primed
    /\ UNCHANGED <<animation_id, tpc, capacity, animations, token, admitted,
                   rejected, played, unparked, channel, sent>>
    /\ UNCHANGED <<driverVars, consumerVars, dropped, trigger_budget>>

KeyRelease(key) ==
    /\ tpc = "listen"
    /\ primed' = IF key = "Alt" THEN FALSE ELSE primed
    /\ UNCHANGED <<animation_id, tpc, capacity, animations, token, admitted,
                   rejected, played, unparked, channel, sent>>
    /\ UNCHANGED <<driverVars, consumerVars, dropped, trigger_budget>>

\* a ButtonPress arm that takes the next id only when the push succeeds
ButtonPressIdOnSuccess(button, pos) ==
    /\ tpc = "listen"
    /\ IF primed /\ button = "Left"
       THEN /\ animation_id < trigger_budget
            /\ IF PushOk(animations)
               THEN /\ animation_id' = NextId(animation_id)
                    /\ animations' = Append(animations, NewAnimation(animation_id', pos))
                    /\ admitted' = admitted \cup {animation_id'}
                    /\ played' = played \cup {animation_id'}
                    /\ tpc' = "unpark"
                    /\ UNCHANGED rejected
               ELSE /\ rejected' = rejected \cup {NextId(animation_id)}
                    /\ UNCHANGED <<animation_id, animations, admitted, played, tpc>>
       ELSE UNCHANGED <<animation_id, animations, admitted, played, rejected, tpc>>
    /\ UNCHANGED <<primed, capacity, token, unparked, channel, sent>>
    /\ UNCHANGED <<driverVars, consumerVars, dropped, trigger_budget>>

\* ButtonPress arm up to and including play_raw; the unpark is the next step
ButtonPress(button, pos) ==
    /\ tpc = "listen"
    /\ IF primed /\ button = "Left"
       THEN /\ animation_id < trigger_budget
            /\ animation_id' = NextId(animation_id)
            /\ IF PushOk(animations)
               THEN /\ animations' = Append(animations, NewAnimation(animation_id', pos))
                    /\ admitted' = admitted \cup {animation_id'}
                    /\ played' = played \cup {animation_id'}
                    /\ tpc' = "unpark"
                    /\ UNCHANGED rejected
               ELSE /\ rejected' = rejected \cup {animation_id'}
                    /\ UNCHANGED <<animations, admitted, played, tpc>>
       ELSE UNCHANGED <<animation_id, animations, admitted, played, rejected, tpc>>
    /\ UNCHANGED <<primed, capacity, token, unparked, channel, sent>>
    /\ UNCHANGED <<driverVars, consumerVars, dropped, trigger_budget>>

\* the `_ => {}` arm: any other rdev event
OtherEvent ==
    /\ tpc = "listen"
    /\ UNCHANGED <<primed, animation_id, tpc, capacity, animations, token, admitted,
                   rejected, played, unparked, channel, sent>>
    /\ UNCHANGED <<driverVars, consumerVars, dropped, trigger_budget>>

\* the callback returning without waking the driver thread
UnparkLost ==
    /\ tpc = "unpark"
    /\ unparked' = unparked \cup {animation_id}
    /\ tpc' = "listen"
    /\ UNCHANGED <<primed, animation_id, capacity, animations, token, admitted,
                   rejected, played, channel, sent>>
    /\ UNCHANGED <<driverVars, consumerVars, dropped, last_event, trigger_budget>>

\* animation_driver_handle.thread().unpark()
Unpark ==
    /\ tpc = "unpark"
    /\ token' = TRUE
    /\ unparked' = unparked \cup {animation_id}
    /\ tpc' = "listen"
    /\ UNCHANGED <<primed, animation_id, capacity, animations, admitted, rejected,
                   played, channel, sent>>
    /\ UNCHANGED <<driverVars, consumerVars, dropped, last_event, trigger_budget>>

----------------------------------------------------------------------------
(* Animation driver thread *)

\* the loop condition written with || instead of &&
ParkCheckEither ==
    /\ spc = "check"
    /\ spc' = IF animations = <<>> \/ local_animation_queue = <<>>
              THEN "park" ELSE "drain"
    /\ UNCHANGED <<idx, local_animation_queue, capacity, animations, token, channel, sent>>
    /\ UNCHANGED <<triggerVars, consumerVars, dropped>>

\* while animations.is_empty() && local_animation_queue.is_empty()
ParkCheck ==
    /\ spc = "check"
    /\ spc' = IF animations = <<>> /\ local_animation_queue = <<>>
              THEN "park" ELSE "drain"
    /\ UNCHANGED <<idx, local_animation_queue, capacity, animations, token, channel, sent>>
    /\ UNCHANGED <<triggerVars, consumerVars, dropped>>

\* `if` in place of `while`: the condition is not tested again after park returns
ParkReturnNoRecheck ==
    /\ spc = "park"
    /\ token
    /\ token' = FALSE
    /\ spc' = "drain"
    /\ UNCHANGED <<idx, local_animation_queue, capacity, animations, channel, sent>>
    /\ UNCHANGED <<triggerVars, consumerVars, dropped>>

\* std::thread::park() returning because the token is set; the token is consumed
ParkReturn ==
    /\ spc = "park"
    /\ token
    /\ token' = FALSE
    /\ spc' = "check"
    /\ UNCHANGED <<idx, local_animation_queue, capacity, animations, channel, sent>>
    /\ UNCHANGED <<triggerVars, consumerVars, dropped>>

\* std::thread::park() returning spuriously
ParkSpurious ==
    /\ spc = "park"
    /\ ~token
    /\ spc' = "check"
    /\ UNCHANGED <<idx, local_animation_queue, capacity, animations, token, channel, sent>>
    /\ UNCHANGED <<triggerVars, consumerVars, dropped>>

\* while let Some(animation) = animations.pop() { local_animation_queue.push(animation) }
Drain ==
    /\ spc = "drain"
    /\ IF animations # <<>>
       THEN /\ local_animation_queue' = Append(local_animation_queue, Head(animations))
            /\ animations' = Tail(animations)
            /\ UNCHANGED <<spc, idx>>
       ELSE /\ spc' = "advance"
            /\ idx' = 1
            /\ UNCHANGED <<local_animation_queue, animations>>
    /\ UNCHANGED <<capacity, token, channel, sent>>
    /\ UNCHANGED <<triggerVars, consumerVars, dropped>>

\* one iteration of `for animation in local_animation_queue.iter_mut()`
Advance ==
    /\ spc = "advance"
    /\ idx <= Len(local_animation_queue)
    /\ LET a == local_animation_queue[idx]
           b == [a EXCEPT !.frame = NextFrame(a.frame), !.elapsed = 0]
       IN IF Due(a)
          THEN /\ local_animation_queue' = [local_animation_queue EXCEPT ![idx] = b]
               /\ IF closed
                  THEN \* send_event returns Err(EventLoopClosed); .ok() discards it
                       /\ dropped' = dropped \cup {b.id}
                       /\ UNCHANGED <<channel, sent>>
                  ELSE /\ Len(channel) < MaxChannel
                       /\ channel' = Append(channel, Notification(b))
                       /\ sent' = [sent EXCEPT ![b.id] = Append(@, Notification(b))]
                       /\ UNCHANGED dropped
          ELSE UNCHANGED <<local_animation_queue, channel, sent, dropped>>
    /\ idx' = idx + 1
    /\ UNCHANGED <<spc, capacity, animations, token>>
    /\ UNCHANGED <<triggerVars, consumerVars>>

\* end of the `for` loop: local_animation_queue.retain(..), back to the top of `loop`
EndPass ==
    /\ spc = "advance"
    /\ idx > Len(local_animation_queue)
    /\ local_animation_queue' = Retain(local_animation_queue)
    /\ spc' = "check"
    /\ idx' = 1
    /\ UNCHANGED <<capacity, animations, token, channel, sent>>
    /\ UNCHANGED <<triggerVars, consumerVars, dropped>>

----------------------------------------------------------------------------
(* Event loop: Event::UserEvent arms *)

UserEvent ==
    /\ ~closed
    /\ channel # <<>>
    /\ LET e == Head(channel)
       IN /\ my_app' = IF e.kind = "Animate"
                       THEN AddAnimation(my_app, e)
                       ELSE RemoveAnimation(my_app, e.id)
          /\ handled' = [handled EXCEPT ![e.id] = Append(@, e)]
    /\ channel' = Tail(channel)
    /\ UNCHANGED <<capacity, animations, token, sent, closed, dropped>>
    /\ UNCHANGED <<triggerVars, driverVars>>

\* WindowEvent::CloseRequested: *control_flow = ControlFlow::Exit; the loop
\* handles no further event and later sends find it closed
CloseRequested ==
    /\ ~closed
    /\ closed' = TRUE
    /\ UNCHANGED <<capacity, animations, token, channel, sent, my_app, handled, dropped>>
    /\ UNCHANGED <<triggerVars, driverVars>>

----------------------------------------------------------------------------
(* Wall-clock time *)

AgeOne(a) ==
    [a EXCEPT !.elapsed = IF a.elapsed > FramePeriod THEN a.elapsed ELSE a.elapsed + 1]

AgeAll(s) == [i \in DOMAIN s |-> AgeOne(s[i])]

\* one clock tick: Instant::elapsed() grows for every animation
Tick ==
    /\ animations' = AgeAll(animations)
    /\ local_animation_queue' = AgeAll(local_animation_queue)
    /\ UNCHANGED <<spc, idx, capacity, token, channel, sent>>
    /\ UNCHANGED <<triggerVars, consumerVars, dropped>>

----------------------------------------------------------------------------
Next ==
    \/ \E key \in Keys : KeyPress(key) /\ UNCHANGED last_event
    \/ \E key \in Keys : KeyRelease(key) /\ UNCHANGED last_event
    \/ \E button \in Buttons, pos \in Positions :
          ButtonPress(button, pos) /\ UNCHANGED last_event
    \/ OtherEvent /\ UNCHANGED last_event
    \/ Unpark
    \/ ParkCheck
    \/ ParkReturn
    \/ ParkSpurious
    \/ Drain
    \/ Advance
    \/ EndPass
    \/ UserEvent
    \/ Tick

Spec == Init /\ [][Next]_vars

\* the same program with the queue built by ArrayQueue::new(1)
CapOneSpec == InitWith(1) /\ [][Next]_vars

\* the program together with the window being closed while it runs
CloseNext == Next \/ CloseRequested

CloseSpec == Init /\ [][CloseNext]_vars

\* the callback run on event e, with e recorded; the third component flips at
\* every run so that two equal events in a row are told apart
Record(e) == last_event' = <<e[1], e[2], 1 - last_event[3]>>

\* the trigger thread observed event by event, with the driver thread draining
\* the queue beside it; the clock does not advance, and one trigger more than
\* MaxTriggers is explored
TraceNext ==
    \/ \E key \in Keys : KeyPress(key) /\ Record(<<"KeyPress", key>>)
    \/ \E key \in Keys : KeyRelease(key) /\ Record(<<"KeyRelease", key>>)
    \/ \E button \in Buttons, pos \in Positions :
          ButtonPress(button, pos) /\ Record(<<"ButtonPress", button>>)
    \/ OtherEvent /\ Record(<<"Other", "None">>)
    \/ Unpark
    \/ ParkCheck
    \/ ParkReturn
    \/ ParkSpurious
    \/ Drain
    \/ Advance
    \/ EndPass

TraceSpec == InitFull(QueueCapacity, MaxTriggers + 1) /\ [][TraceNext]_vars

\* the user events the event loop can be handed: Animate of the first and of
\* the last shown frame, and Clear, for each id
EventValues ==
    LET shown == {[id |-> i, frame |-> f, position |-> p, elapsed |-> 0] :
                     i \in 1 .. MaxTriggers, f \in {1, TerminalFrame - 1}, p \in Positions}
    IN {Animate(a) : a \in shown} \cup {Clear(a) : a \in shown}

\* the event loop alone, started on an arbitrary sequence of pending user events
ConsumerInit ==
    /\ primed = FALSE
    /\ animation_id = 0
    /\ tpc = "listen"
    /\ capacity = QueueCapacity
    /\ animations = <<>>
    /\ token = FALSE
    /\ spc = "check"
    /\ idx = 1
    /\ local_animation_queue = <<>>
    /\ channel \in UNION {[1 .. n -> EventValues] : n \in 0 .. MaxEvents}
    /\ my_app = EmptyMap
    /\ sent = [i \in Ids |-> <<>>]
    /\ handled = [i \in Ids |-> <<>>]
    /\ admitted = {}
    /\ rejected = {}
    /\ played = {}
    /\ unparked = {}
    /\ closed = FALSE
    /\ dropped = {}
    /\ last_event = NoEvent
    /\ trigger_budget = 0

ConsumerNext == UserEvent

ConsumerSpec == ConsumerInit /\ [][ConsumerNext]_vars

\* the driver thread keeps being scheduled, the trigger callback runs to its
\* end, the clock keeps advancing and the event loop keeps delivering
Fairness ==
    /\ WF_vars(Unpark)
    /\ WF_vars(ParkCheck)
    /\ WF_vars(ParkReturn)
    /\ WF_vars(Drain)
    /\ WF_vars(Advance)
    /\ WF_vars(EndPass)
    /\ WF_vars(UserEvent)
    /\ WF_vars(Tick)

LiveSpec == Init /\ [][Next]_vars /\ Fairness

----------------------------------------------------------------------------
(* Vocabulary of the properties *)

InQueue(i) == \E k \in DOMAIN animations : animations[k].id = i
InActive(i) == \E k \in DOMAIN local_animation_queue : local_animation_queue[k].id = i
InMap(i) == i \in DOMAIN my_app

IsClear(e) == e.kind = "Clear"
IsAnimate(e) == e.kind = "Animate"

ClearSent(i) == \E k \in DOMAIN sent[i] : IsClear(sent[i][k])
ClearHandled(i) == \E k \in DOMAIN handled[i] : IsClear(handled[i][k])
AnimateHandled(i) == \E k \in DOMAIN handled[i] : IsAnimate(handled[i][k])

IsPrefix(s, t) == Len(s) <= Len(t) /\ \A k \in DOMAIN s : s[k] = t[k]

InFlight == {i \in Ids : InQueue(i) \/ InActive(i) \/ InMap(i)}

Idle == animations = <<>> /\ local_animation_queue = <<>>

\* the Animate notifications of a log, in order
RECURSIVE AnimateFrames(_)
AnimateFrames(s) ==
    IF s = <<>> THEN <<>>
    ELSE IF IsAnimate(Head(s)) THEN <<Head(s).frame>> \o AnimateFrames(Tail(s))
    ELSE AnimateFrames(Tail(s))

\* Animate notifications with strictly increasing frames, then at most one
\* Clear, which is the last entry
AnimatesThenClear(s) ==
    \A k \in DOMAIN s :
        /\ IsClear(s[k]) => k = Len(s)
        /\ (k < Len(s) /\ IsAnimate(s[k + 1])) => s[k].frame < s[k + 1].frame

\* everything about id i is over: not queued, not active, not shown
Gone(i) == ~InQueue(i) /\ ~InActive(i) /\ ~InMap(i)

----------------------------------------------------------------------------
(* C1 *)

\* C1: under fair scheduling of the driver thread, the clock and the event
\* loop, every admitted id eventually has its Clear processed by the consumer
\* and is then in neither the queue, the active set nor the consumer's map.
C1_AdmittedEventuallyCleared ==
    \A i \in Ids : (i \in admitted) ~> (ClearHandled(i) /\ Gone(i))

C1_Witness ==
    \E i \in Ids : i \in admitted /\ ClearHandled(i) /\ Gone(i)

----------------------------------------------------------------------------
(* C2 *)

\* C2: for each id the notifications sent, and those delivered, are Animate
\* notifications with strictly increasing frames followed by at most one
\* Clear, with nothing after the Clear; delivery keeps the order of sending.
C2_PerIdOrdering ==
    \A i \in Ids :
        /\ AnimatesThenClear(sent[i])
        /\ AnimatesThenClear(handled[i])
        /\ IsPrefix(handled[i], sent[i])

C2_Witness ==
    \E i, j \in Ids :
        /\ i # j
        /\ ClearHandled(i)
        /\ Len(AnimateFrames(handled[i])) >= 2
        /\ InActive(j)
        /\ sent[j] # <<>>
        /\ ~ClearSent(j)

----------------------------------------------------------------------------
(* C3 *)

\* C3: for each id, consecutive Animate notifications delivered to the
\* consumer carry frames that differ by exactly 1, and no Animate carries a
\* frame above the last frame index (TerminalFrame - 1; 59 in the source).
C3_FrameMonotonicity ==
    \A i \in Ids :
        LET f == AnimateFrames(handled[i])
        IN \A k \in DOMAIN f :
              /\ f[k] <= TerminalFrame - 1
              /\ k < Len(f) => f[k + 1] = f[k] + 1

C3_Witness ==
    \E i \in Ids :
        LET f == AnimateFrames(handled[i])
        IN Len(f) >= 2 /\ f[Len(f)] = TerminalFrame - 1

----------------------------------------------------------------------------
(* C4 *)

\* C4: for every id the first notification sent is Animate with frame 0, and
\* when the Clear is sent it has been preceded by the Animate notifications
\* of all frames 0 .. TerminalFrame - 1 (0 .. 59 in the source).
C4_FullSequenceFromZero ==
    \A i \in Ids :
        /\ sent[i] # <<>> => (IsAnimate(sent[i][1]) /\ sent[i][1].frame = 0)
        /\ ClearSent(i) => Len(AnimateFrames(sent[i])) = TerminalFrame

\* what the driver sends instead: frames 1 .. TerminalFrame - 1, then Clear
C4_Observed ==
    \E i \in Ids :
        /\ ClearSent(i)
        /\ AnimateFrames(sent[i]) = [k \in 1 .. TerminalFrame - 1 |-> k]

----------------------------------------------------------------------------
(* C5 *)

\* C5: the queue never holds more than its capacity; a rejected trigger plays
\* no sound, issues no unpark, is never queued or active and never has a
\* notification sent for its id; the sound is played exactly for the pushes
\* that succeeded, and so is the unpark once the callback has returned.
C5_Backpressure ==
    /\ Len(animations) <= capacity
    /\ admitted \cap rejected = {}
    /\ \A i \in rejected :
          /\ i \notin played
          /\ i \notin unparked
          /\ sent[i] = <<>>
          /\ Gone(i)
    /\ played = admitted
    /\ unparked \subseteq admitted
    /\ tpc = "listen" => unparked = admitted
    /\ tpc = "unpark" => unparked = admitted \ {animation_id}

C5_Witness ==
    /\ rejected # {}
    /\ admitted # {}
    /\ tpc = "listen"
    /\ \E i \in admitted : ClearHandled(i)

----------------------------------------------------------------------------
(* C6 *)

\* C6: under fair scheduling (no spurious wake-up assumed) the driver thread
\* does not stay parked while the queue is non-empty, and every admitted
\* animation is eventually popped from the queue into the active set.
C6_NoLostWakeup ==
    /\ (spc = "park" /\ animations # <<>>) ~> (spc # "park")
    /\ \A i \in Ids : (i \in admitted) ~> (i \in admitted /\ ~InQueue(i))

\* the race: the driver has decided to park, the push has happened, the
\* unpark has not been issued yet
C6_Witness ==
    /\ spc = "park"
    /\ animations # <<>>
    /\ tpc = "unpark"
    /\ ~token

----------------------------------------------------------------------------
(* C7 *)

\* C7: the consumer's map holds an id only if an Animate for that id has been
\* processed and its Clear has not; as a Clear once processed stays processed,
\* an id whose Clear has been processed is never in the map again.
C7_ConsumerMap ==
    \A i \in DOMAIN my_app : AnimateHandled(i) /\ ~ClearHandled(i)

\* an id has left the map through its Clear while another id is shown
C7_Witness ==
    \E i, j \in Ids :
        /\ AnimateHandled(i) /\ ClearHandled(i) /\ ~InMap(i)
        /\ InMap(j)

----------------------------------------------------------------------------
(* C8 *)

\* C8: whenever the driver thread is parked its active set is empty, it enters
\* park only in a step that observes the queue and the active set empty, and
\* it comes back to the emptiness test only from the end of a pass or from a
\* return of park.
C8_ParksOnlyWhenIdle ==
    /\ [](spc = "park" => local_animation_queue = <<>>)
    /\ [][(spc # "park" /\ spc' = "park")
             => (spc = "check" /\ animations = <<>> /\ local_animation_queue = <<>>)]_vars
    /\ [][(spc # "check" /\ spc' = "check")
             => \/ spc = "park"
                \/ (spc = "advance" /\ idx > Len(local_animation_queue))]_vars

\* the driver parks again after a pass has retired the last animation
C8_Witness ==
    /\ spc = "park"
    /\ \E i \in Ids : ClearSent(i)

----------------------------------------------------------------------------
(* C9 *)

\* C9: while the queue and the active set are both empty the driver thread is
\* at the emptiness test or parked, and no step taken from such a state sends
\* a notification or moves the driver into its pass, whether park returned
\* spuriously or through a stale token; the only step that ends such a state
\* is a successful admission.
C9_IdleEfficiency ==
    /\ [](Idle => spc \in {"check", "park"})
    /\ [][Idle => (sent' = sent /\ Len(channel') <= Len(channel)
                   /\ spc' \in {"check", "park"})]_vars
    /\ [][(Idle /\ ~Idle') => (admitted' # admitted /\ animations' # <<>>)]_vars

\* parked with nothing to do while a token from an earlier admission is set
C9_Witness ==
    /\ Idle
    /\ spc = "park"
    /\ token
    /\ tpc = "listen"
    /\ admitted # {}

----------------------------------------------------------------------------
(* C10 *)

\* C10 as stated: with capacity 1 at most one animation is in flight, counting
\* the queue, the active set and the consumer's map, and a trigger arriving
\* while one is in flight is ignored.
C10_OneInFlight ==
    /\ [](Cardinality(InFlight) <= 1)
    /\ [][(InFlight # {} /\ animation_id' # animation_id)
             => (rejected' # rejected /\ animations' = animations)]_vars

\* C10 amended: with capacity 1 at most one animation waits in the queue; a
\* trigger arriving while the queue holds one is ignored (no push, no sound,
\* no unpark), and a trigger arriving while the queue is empty is admitted
\* whatever the active set and the consumer's map hold.
C10_OnePending ==
    /\ [](capacity = 1 /\ Len(animations) <= 1)
    /\ [][(animations # <<>> /\ animation_id' # animation_id)
             => /\ rejected' = rejected \cup {animation_id'}
                /\ animations' = animations
                /\ played' = played
                /\ token' = token
                /\ tpc' = "listen"]_vars
    /\ [][(animations = <<>> /\ animation_id' # animation_id)
             => /\ admitted' = admitted \cup {animation_id'}
                /\ Len(animations') = 1]_vars

\* two animations in flight at capacity 1
C10_Witness ==
    /\ capacity = 1
    /\ Cardinality(InFlight) >= 2
    /\ \E i \in Ids : InActive(i)

----------------------------------------------------------------------------
(* C11 *)

\* C11: once a send of Animate or Clear has failed because the event loop is
\* gone, the driver thread takes no further step: it neither moves on in its
\* pass nor starts another one.
C11_DisconnectIsFatal ==
    [][dropped # {} => (spc' = spc /\ idx' = idx)]_vars

\* what the driver does instead: it runs the animation to its end with every
\* notification discarded, retires it and parks
C11_Observed ==
    \E i \in dropped :
        /\ ~ClearSent(i)
        /\ ~InActive(i)
        /\ spc = "park"

----------------------------------------------------------------------------
(* C12 *)

\* the animations the driver owns or will own, oldest admission first
Pipeline == local_animation_queue \o animations

\* C12: the ids of the animations in the active set followed by those in the
\* queue are strictly increasing (admission order), every one of them is an
\* admitted id no greater than the counter, and an id shown by the consumer
\* belongs to at most one animation of the active set and none of the queue.
C12_IdUniqueness ==
    /\ \A k \in DOMAIN Pipeline :
          /\ Pipeline[k].id \in admitted
          /\ Pipeline[k].id <= animation_id
          /\ k < Len(Pipeline) => Pipeline[k].id < Pipeline[k + 1].id
    /\ \A i \in DOMAIN my_app :
          /\ ~InQueue(i)
          /\ Cardinality({k \in DOMAIN Pipeline : Pipeline[k].id = i}) <= 1

\* two animations side by side: the older one active and shown, the newer one queued
C12_Witness ==
    \E i, j \in Ids :
        /\ i < j
        /\ InActive(i) /\ InMap(i)
        /\ InQueue(j)

----------------------------------------------------------------------------
(* C13 *)

\* the active set's record of id i
ActiveOf(i) ==
    local_animation_queue[CHOOSE k \in DOMAIN local_animation_queue :
                              local_animation_queue[k].id = i]

\* the ids of the active set, in Vec order
RECURSIVE IdsOf(_)
IdsOf(s) == IF s = <<>> THEN <<>> ELSE <<Head(s).id>> \o IdsOf(Tail(s))

\* C13: in every step an active animation's frame grows by at most 1.  The
\* step of the pass that visits an animation whose elapsed time exceeds the
\* frame period raises its frame by exactly 1, resets last_update and sends
\* one notification; in every other step the animation keeps its frame and
\* its last_update and nothing is sent for it.  A pass visits the elements at
\* increasing positions of an unchanged Vec, so each is visited at most once.
C13_NoCoalescing ==
    /\ [][\A i \in Ids :
            (InActive(i) /\ InActive(i)') =>
                LET a == ActiveOf(i)
                    a2 == ActiveOf(i)'
                    visited == /\ spc = "advance"
                               /\ idx <= Len(local_animation_queue)
                               /\ local_animation_queue[idx].id = i
                               /\ idx' = idx + 1
                    due == a.elapsed > FramePeriod
                IN /\ a2.frame \in {a.frame, a.frame + 1}
                   /\ (visited /\ due) =>
                         /\ a2.frame = a.frame + 1
                         /\ a2.elapsed = 0
                         /\ Len(sent'[i]) = Len(sent[i]) + 1
                   /\ ~(visited /\ due) =>
                         /\ a2.frame = a.frame
                         /\ a2.elapsed >= a.elapsed
                         /\ sent'[i] = sent[i]]_vars
    /\ [][(spc = "advance" /\ spc' = "advance") =>
             /\ idx' \in {idx, idx + 1}
             /\ IdsOf(local_animation_queue') = IdsOf(local_animation_queue)]_vars

\* one pass over two animations of which only the second is due, just after
\* the first was visited and left alone
C13_Witness ==
    /\ spc = "advance"
    /\ idx = 2
    /\ Len(local_animation_queue) = 2
    /\ local_animation_queue[1].elapsed <= FramePeriod
    /\ local_animation_queue[1].elapsed > 0
    /\ local_animation_queue[2].elapsed > FramePeriod

----------------------------------------------------------------------------
(* C14 *)

\* the number of Clear notifications in a log
ClearCount(s) == Cardinality({k \in DOMAIN s : IsClear(s[k])})

\* C14: no animation's frame exceeds TerminalFrame (60 in the source) and a
\* queued animation is at frame 0.  An active animation is at TerminalFrame
\* only inside the pass that raised it there, behind the loop position, with
\* its Clear sent; so outside a pass, and at the start of one, every active
\* frame is below TerminalFrame.  Clear is sent at most once per id, and an
\* id whose Clear was sent is never queued and is active only until the end
\* of that pass.
C14_TerminalHandling ==
    /\ \A k \in DOMAIN animations : animations[k].frame = 0
    /\ \A k \in DOMAIN local_animation_queue :
          LET a == local_animation_queue[k]
          IN /\ a.frame <= TerminalFrame
             /\ a.frame = TerminalFrame =>
                   (spc = "advance" /\ k < idx /\ ClearSent(a.id))
    /\ \A i \in Ids :
          /\ ClearCount(sent[i]) <= 1
          /\ ClearSent(i) =>
                /\ ~InQueue(i)
                /\ InActive(i) => ActiveOf(i).frame = TerminalFrame

\* the state between the step that sent Clear and the retain of the same pass
C14_Witness ==
    \E k \in DOMAIN local_animation_queue :
        /\ local_animation_queue[k].frame = TerminalFrame
        /\ ClearSent(local_animation_queue[k].id)
        /\ Len(local_animation_queue) = 2

----------------------------------------------------------------------------
(* C15 *)

\* C15: the step that processes the oldest pending user event e leaves the map
\* as follows.  Animate: exactly the old keys and e.id, with e.id holding e's
\* frame and position and every other entry as before.  Clear: the old keys
\* without e.id, every remaining entry as before; when e.id was not a key the
\* map is unchanged.
C15_ConsumerApplies ==
    [][(channel # <<>> /\ channel' = Tail(channel)) =>
          LET e == Head(channel)
          IN IF IsAnimate(e)
             THEN /\ DOMAIN my_app' = DOMAIN my_app \cup {e.id}
                  /\ my_app'[e.id] = [frame |-> e.frame, position |-> e.position]
                  /\ \A j \in DOMAIN my_app \ {e.id} : my_app'[j] = my_app[j]
             ELSE /\ DOMAIN my_app' = DOMAIN my_app \ {e.id}
                  /\ \A j \in DOMAIN my_app' : my_app'[j] = my_app[j]
                  /\ e.id \notin DOMAIN my_app => my_app' = my_app]_vars

\* a Clear for an id never shown was processed while another id is shown,
\* and that other id's entry was written twice
C15_Witness ==
    \E i, j \in Ids :
        /\ i # j
        /\ handled[i] # <<>>
        /\ IsClear(handled[i][1])
        /\ InMap(j)
        /\ Len(handled[j]) = 2

----------------------------------------------------------------------------
(* C16 *)

\* the queued or active record of id i
TrackedRecords(i) ==
    {animations[k] : k \in {n \in DOMAIN animations : animations[n].id = i}}
    \cup {local_animation_queue[k] :
             k \in {n \in DOMAIN local_animation_queue : local_animation_queue[n].id = i}}

\* every position any record or notification about id i carries or carried
PositionsOf(i) ==
    {a.position : a \in TrackedRecords(i)}
    \cup {sent[i][k].position : k \in {n \in DOMAIN sent[i] : IsAnimate(sent[i][n])}}
    \cup {handled[i][k].position : k \in {n \in DOMAIN handled[i] : IsAnimate(handled[i][n])}}
    \cup {channel[k].position :
             k \in {n \in DOMAIN channel : IsAnimate(channel[n]) /\ channel[n].id = i}}
    \cup (IF i \in DOMAIN my_app THEN {my_app[i].position} ELSE {})

\* C16: for each id, the animation record, every Animate sent, pending or
\* delivered, and the consumer's map entry carry one and the same position;
\* no step changes the position of a queued or active animation, and a queued
\* or active record with a new id appears only by the admission of that id.
C16_PositionImmutable ==
    /\ [](\A i \in Ids : Cardinality(PositionsOf(i)) <= 1)
    /\ [][\A i \in Ids :
            /\ (TrackedRecords(i) # {} /\ TrackedRecords(i)' # {}) =>
                  {a.position : a \in TrackedRecords(i)'}
                      = {a.position : a \in TrackedRecords(i)}
            /\ (TrackedRecords(i) = {} /\ TrackedRecords(i)' # {}) =>
                  (animation_id' = i /\ animation_id # i)]_vars

\* two animations admitted at different positions, both shown at their own
C16_Witness ==
    \E i, j \in Ids :
        /\ InMap(i) /\ InMap(j)
        /\ my_app[i].position # my_app[j].position
        /\ Len(AnimateFrames(handled[i])) >= 2

----------------------------------------------------------------------------
(* C17 *)

\* the event of the callback run that a step performs
EventOf(le) == <<le[1], le[2]>>

\* C17: a run of the callback on an Alt press sets the latch, on an Alt
\* release clears it, and on any other event leaves it; the run attempts an
\* admission (takes the next id and pushes, with either outcome) exactly when
\* the event is a left button press and the latch is set; steps that are not
\* callback runs touch neither the latch nor the counter.
C17_TriggerLatch ==
    /\ [][last_event' # last_event =>
             LET ev == EventOf(last_event')
                 attempt == animation_id' # animation_id
             IN /\ primed' = (IF ev = <<"KeyPress", "Alt">> THEN TRUE
                              ELSE IF ev = <<"KeyRelease", "Alt">> THEN FALSE
                              ELSE primed)
                /\ attempt <=> (ev = <<"ButtonPress", "Left">> /\ primed)
                /\ attempt =>
                      \/ admitted' = admitted \cup {animation_id'}
                            /\ Len(animations') = Len(animations) + 1
                      \/ rejected' = rejected \cup {animation_id'}
                            /\ animations' = animations
                /\ ~attempt => (animations' = animations /\ admitted' = admitted
                                   /\ rejected' = rejected)]_vars
    /\ [][last_event' = last_event =>
             (primed' = primed /\ animation_id' = animation_id)]_vars

\* a left press that found the latch cleared after earlier attempts, all of
\* the explored triggers having been attempted while Alt was held
C17_Witness ==
    /\ EventOf(last_event) = <<"ButtonPress", "Left">>
    /\ ~primed
    /\ animation_id >= 2

----------------------------------------------------------------------------
(* C18 *)

\* C18: every id up to the counter was consumed by exactly one trigger, either
\* admitted or rejected; a rejected trigger moves the counter by one like an
\* admitted one; only admitted ids are carried by queued or active animations;
\* and a newly admitted id is greater than every id consumed before, rejected
\* ones included, so admitted ids increase and may leave gaps.
C18_RejectedConsumesId ==
    /\ [](/\ admitted \cup rejected = 1 .. animation_id
          /\ admitted \cap rejected = {}
          /\ \A k \in DOMAIN Pipeline : Pipeline[k].id \in admitted)
    /\ [][rejected' # rejected =>
             /\ animation_id' = animation_id + 1
             /\ rejected' = rejected \cup {animation_id'}
             /\ animations' = animations]_vars
    /\ [][admitted' # admitted =>
             /\ animation_id' = animation_id + 1
             /\ admitted' = admitted \cup {animation_id'}
             /\ animations' = Append(animations, animations'[Len(animations')])
             /\ animations'[Len(animations')].id = animation_id'
             /\ \A j \in admitted \cup rejected : j < animation_id']_vars

\* admitted ids with a gap left by a rejected trigger
C18_Witness ==
    /\ 2 \in rejected
    /\ {1, 3} \subseteq admitted
    /\ InQueue(3)

----------------------------------------------------------------------------
(* C19 *)

\* C19: a notification is sent only in a step that has just incremented the
\* frame of the animation it is about, and an Animate carries the incremented
\* frame; so the first notification of an id is Animate with frame 1, the
\* Animates of an id carry frames 1, 2, ... in order, a cleared id has had
\* exactly TerminalFrame - 1 Animates followed by its one Clear, and no entry
\* of the consumer's map is at frame 0.
C19_SendsAfterIncrement ==
    /\ [](\A i \in Ids :
            LET frames == AnimateFrames(sent[i])
            IN /\ sent[i] # <<>> => (IsAnimate(sent[i][1]) /\ sent[i][1].frame = 1)
               /\ \A k \in DOMAIN frames : frames[k] = k
               /\ Len(frames) <= TerminalFrame - 1
               /\ ClearSent(i) =>
                     /\ Len(frames) = TerminalFrame - 1
                     /\ Len(sent[i]) = TerminalFrame
                     /\ IsClear(sent[i][TerminalFrame])
               /\ InMap(i) => my_app[i].frame >= 1)
    /\ [][sent' # sent =>
             \E k \in DOMAIN local_animation_queue :
                 LET a == local_animation_queue[k]
                     b == local_animation_queue'[k]
                     n == sent'[a.id][Len(sent'[a.id])]
                 IN /\ Len(local_animation_queue') = Len(local_animation_queue)
                    /\ b.id = a.id
                    /\ b.frame = a.frame + 1
                    /\ sent' = [sent EXCEPT ![a.id] = Append(@, n)]
                    /\ IsAnimate(n) => n.frame = b.frame]_vars

\* one id has had its whole sequence sent while another sits in the map at
\* its first notified frame
C19_Witness ==
    \E i, j \in Ids :
        /\ ClearSent(i)
        /\ Len(AnimateFrames(sent[i])) = TerminalFrame - 1
        /\ InMap(j)
        /\ my_app[j].frame = 1

----------------------------------------------------------------------------
(* C20 *)

\* C20: every entry of the consumer's map, and every Animate notification in
\* flight to it, has a frame index below the number of frame assets, so the
\* repaint's frames[animation.frame] never indexes out of range.
C20_FrameIndexInRange ==
    /\ \A i \in DOMAIN my_app : my_app[i].frame \in 0 .. FrameAssets - 1
    /\ \A k \in DOMAIN channel :
          IsAnimate(channel[k]) => channel[k].frame \in 0 .. FrameAssets - 1

\* an entry at the last frame index, with the Clear that removes it in flight
C20_Witness ==
    \E i \in DOMAIN my_app :
        /\ my_app[i].frame = FrameAssets - 1
        /\ \E k \in DOMAIN channel : IsClear(channel[k]) /\ channel[k].id = i

====
